---- MODULE Spec2Model ----
(***************************************************************************)
(* EmojiMixPlugin (src/main.py): emoji extraction, hex encoding, the       *)
(* date-ordered probe loop of _find_mixed_emoji_url, and the two entry     *)
(* points emoji_mix_handler and handle_double_emoji_message.               *)
(*                                                                         *)
(* A text is a sequence of codepoints (Python str), an emoji is a          *)
(* non-empty sequence of codepoints.  One behaviour is the handling of     *)
(* one event; each HTTP HEAD probe is one step whose outcome is chosen by  *)
(* the network.                                                            *)
(***************************************************************************)
EXTENDS Integers, Sequences, FiniteSets, TLC

VARIABLES
    entry,           \* which entry point runs: "none", "command", "passive", "process", "hex"
    pc,              \* "idle", "probing" (awaiting client.head), "done", "crashed"
    message_str,     \* event.message_str
    emojis,          \* the list handed to _process_mix_request
    emoji1_hex,      \* locals of _find_mixed_emoji_url
    emoji2_hex,
    dateIdx,         \* position of date_code in config["date_codes"]
    url_candidates,  \* candidates of the current date
    candIdx,         \* position of url in url_candidates
    probes,          \* every client.head issued so far: [url, err, status]
    mix_url,         \* return value of _find_mixed_emoji_url ("" is None)
    processCalled,   \* _process_mix_request was invoked
    result,          \* return value of _process_mix_request
    reply,           \* return value of the entry point
    hex_in,          \* <<c, v>>: arguments of the two _get_emoji_hex_code calls
    hex_out          \* <<hex(c \o v), hex(c)>>

vars == <<entry, pc, message_str, emojis, emoji1_hex, emoji2_hex, dateIdx,
          url_candidates, candIdx, probes, mix_url, processCalled, result,
          reply, hex_in, hex_out>>

(***************************************************************************)
(* Bounds                                                                  *)
(***************************************************************************)
NumDates == 2        \* how many entries of date_codes are kept
MaxTokens == 3       \* emoji occurrences in one message
MaxPad == 9          \* plain characters following the emoji in a message
MaxSelectors == 2    \* length of an appended variation-selector string

(***************************************************************************)
(* Program constants                                                       *)
(***************************************************************************)
VS15 == 65038                \* U+FE0E
VS16 == 65039                \* U+FE0F
max_emoji_length == 2
PassiveMaxLen == 10

AllDateCodes ==
    << "20240204", "20250130", "20241023", "20241021", "20240715",
       "20240610", "20240530", "20240214", "20240206", "20231128",
       "20231113", "20230821", "20230818", "20230803", "20230426",
       "20230421", "20230418", "20230405", "20230301", "20230221",
       "20230216", "20230127", "20230126", "20221107", "20221101",
       "20220823", "20220815", "20220506", "20220406", "20220203",
       "20220110", "20211115", "20210831", "20210521", "20210218",
       "20201001" >>

date_codes == SubSeq(AllDateCodes, 1, NumDates)

(***************************************************************************)
(* Codepoints and emoji of the input alphabet                              *)
(***************************************************************************)
Smile   == << 128522 >>           \* U+1F60A
Dog     == << 128054 >>           \* U+1F436
Heart   == << 10084 >>            \* U+2764 (text presentation)
HeartVS == << 10084, VS16 >>      \* U+2764 U+FE0F (emoji presentation)
FlagCN  == << 127464, 127475 >>   \* U+1F1E8 U+1F1F3
PlainChar == << 97 >>             \* "a"
Whitespace == { 32, 10 }

EmojiData == { Smile, Dog, Heart, HeartVS, FlagCN }
MessageEmoji == { Smile, Heart, HeartVS }

Range(s) == { s[i] : i \in DOMAIN s }

RECURSIVE Flatten(_)
Flatten(ss) == IF ss = << >> THEN << >> ELSE Head(ss) \o Flatten(Tail(ss))

RECURSIVE Repeat(_, _)
Repeat(s, n) == IF n = 0 THEN << >> ELSE s \o Repeat(s, n - 1)

SeqsUpTo(S, n) == UNION { [1..k -> S] : k \in 0..n }

(***************************************************************************)
(* str.strip()                                                             *)
(***************************************************************************)
RECURSIVE LStrip(_)
LStrip(t) == IF t # << >> /\ Head(t) \in Whitespace THEN LStrip(Tail(t)) ELSE t

RECURSIVE RStrip(_)
RStrip(t) ==
    IF t # << >> /\ t[Len(t)] \in Whitespace
    THEN RStrip(SubSeq(t, 1, Len(t) - 1))
    ELSE t

Strip(t) == RStrip(LStrip(t))

(***************************************************************************)
(* _get_emoji_hex_code                                                     *)
(***************************************************************************)
HexDigits == << "0", "1", "2", "3", "4", "5", "6", "7",
                "8", "9", "a", "b", "c", "d", "e", "f" >>

RECURSIVE HexOf(_)
HexOf(n) ==
    IF n < 16 THEN HexDigits[n + 1]
    ELSE HexOf(n \div 16) \o HexDigits[(n % 16) + 1]

RECURSIVE Join(_, _)
Join(sep, parts) ==
    IF parts = << >> THEN ""
    ELSE IF Len(parts) = 1 THEN parts[1]
    ELSE parts[1] \o sep \o Join(sep, Tail(parts))

KeptOnlyVS16(c) == c # VS16

Kept(c) == c \notin { VS15, VS16 }

GetEmojiHexCode(emoji_char) ==
    LET filtered_chars == SelectSeq(emoji_char, Kept)
    IN  Join("-", [ i \in 1..Len(filtered_chars) |-> "u" \o HexOf(filtered_chars[i]) ])

(***************************************************************************)
(* _extract_valid_emojis                                                   *)
(***************************************************************************)
MatchesAt(text, i) ==
    { e \in EmojiData :
        /\ i + Len(e) - 1 <= Len(text)
        /\ SubSeq(text, i, i + Len(e) - 1) = e }

Longest(S) == CHOOSE e \in S : \A f \in S : Len(f) <= Len(e)

RECURSIVE EmojiListFrom(_, _)
EmojiListFrom(text, i) ==
    IF i > Len(text) THEN << >>
    ELSE IF MatchesAt(text, i) = { } THEN EmojiListFrom(text, i + 1)
    ELSE LET e == Longest(MatchesAt(text, i))
         IN  << e >> \o EmojiListFrom(text, i + Len(e))

EmojiList(text) == EmojiListFrom(text, 1)

IsEmoji(s) == s \in EmojiData

ListsOfSet(S) ==
    { f \in [1..Cardinality(S) -> S] : \A i, j \in DOMAIN f : i # j => f[i] # f[j] }

ExtractValidEmojis(text) ==
    LET emoji_entries == EmojiList(text)
        valid_set == { e \in Range(emoji_entries) : IsEmoji(e) }
    IN  { SubSeq(l, 1, IF Len(l) < max_emoji_length THEN Len(l) ELSE max_emoji_length) :
            l \in ListsOfSet(valid_set) }

(***************************************************************************)
(* Replies                                                                 *)
(***************************************************************************)
None == [kind |-> "none", msg |-> "", emojis |-> << >>, url |-> ""]
UsageHint == [kind |-> "plain", msg |-> "usage", emojis |-> << >>, url |-> ""]
Identical == [kind |-> "plain", msg |-> "identical", emojis |-> << >>, url |-> ""]
NotFound(e1, e2) == [kind |-> "plain", msg |-> "notfound", emojis |-> << e1, e2 >>, url |-> ""]
ImageResult(u) == [kind |-> "image", msg |-> "", emojis |-> << >>, url |-> u]

(***************************************************************************)
(* _find_mixed_emoji_url                                                   *)
(***************************************************************************)
FormatUrl(date_code, hex1, hex2) ==
    "https://www.gstatic.com/android/keyboard/emojikitchen/"
        \o date_code \o "/" \o hex1 \o "/" \o hex1 \o "_" \o hex2 \o ".png"

UrlCandidatesSwappedFirst(date_code, emoji1, emoji2, h1, h2) ==
    IF emoji1 # emoji2
    THEN << FormatUrl(date_code, h2, h1), FormatUrl(date_code, h1, h2) >>
    ELSE << FormatUrl(date_code, h1, h2) >>

UrlCandidates(date_code, emoji1, emoji2, h1, h2) ==
    << FormatUrl(date_code, h1, h2) >>
        \o (IF emoji1 # emoji2 THEN << FormatUrl(date_code, h2, h1) >> ELSE << >>)

\* what one client.head(url, follow_redirects=True) can do
ProbeOutcomes ==
    { [err |-> FALSE, status |-> 200],
      [err |-> FALSE, status |-> 404],
      [err |-> TRUE,  status |-> 0] }      \* raises httpx.RequestError

IsSuccessAnyStatus(o) == ~o.err

IsSuccess(o) == ~o.err /\ o.status = 200

CaughtNothing(o) == FALSE

Caught(o) == o.err

(***************************************************************************)
(* Returning from _process_mix_request to the entry point                  *)
(***************************************************************************)
HandlerReturn(ent, res) == IF ent = "passive" THEN None ELSE res

Return(res) ==
    /\ result' = res
    /\ reply' = HandlerReturn(entry', res)
    /\ pc' = "done"

FindReturns(url) ==
    /\ mix_url' = url
    /\ Return(IF url # "" THEN ImageResult(url) ELSE NotFound(emojis'[1], emojis'[2]))

SameEmojiNever(e1, e2) == FALSE

SameEmoji(e1, e2) == e1 = e2

\* _process_mix_request up to its first await
ProcessMixRequest(ems) ==
    /\ emojis' = ems
    /\ processCalled' = TRUE
    /\ probes' = << >>
    /\ IF Len(ems) # 2
       THEN /\ Return(UsageHint)
            /\ UNCHANGED <<emoji1_hex, emoji2_hex, dateIdx, url_candidates, candIdx, mix_url>>
       ELSE IF SameEmoji(ems[1], ems[2])
       THEN /\ Return(Identical)
            /\ UNCHANGED <<emoji1_hex, emoji2_hex, dateIdx, url_candidates, candIdx, mix_url>>
       ELSE LET h1 == GetEmojiHexCode(ems[1])
                h2 == GetEmojiHexCode(ems[2])
            IN  /\ emoji1_hex' = h1
                /\ emoji2_hex' = h2
                /\ IF h1 = "" \/ h2 = "" \/ date_codes = << >>
                   THEN /\ FindReturns("")
                        /\ UNCHANGED <<dateIdx, url_candidates, candIdx>>
                   ELSE /\ dateIdx' = 1
                        /\ url_candidates' = UrlCandidates(date_codes[1], ems[1], ems[2], h1, h2)
                        /\ candIdx' = 1
                        /\ pc' = "probing"
                        /\ UNCHANGED <<mix_url, result, reply>>

\* one iteration of "for url in url_candidates" with its await client.head
Probe ==
    /\ pc = "probing"
    /\ \E o \in ProbeOutcomes :
         LET url == url_candidates[candIdx] IN
         /\ probes' = Append(probes, [url |-> url, err |-> o.err, status |-> o.status])
         /\ UNCHANGED <<entry, message_str, emojis, emoji1_hex, emoji2_hex,
                        processCalled, hex_in, hex_out>>
         /\ IF IsSuccess(o)
            THEN /\ FindReturns(url)
                 /\ UNCHANGED <<dateIdx, url_candidates, candIdx>>
            ELSE IF o.err /\ ~Caught(o)
            THEN /\ pc' = "crashed"
                 /\ UNCHANGED <<dateIdx, url_candidates, candIdx, mix_url, result, reply>>
            ELSE IF candIdx < Len(url_candidates)
            THEN /\ candIdx' = candIdx + 1
                 /\ UNCHANGED <<pc, dateIdx, url_candidates, mix_url, result, reply>>
            ELSE IF dateIdx < Len(date_codes)
            THEN /\ dateIdx' = dateIdx + 1
                 /\ url_candidates' = UrlCandidates(date_codes[dateIdx + 1], emojis[1],
                                                    emojis[2], emoji1_hex, emoji2_hex)
                 /\ candIdx' = 1
                 /\ UNCHANGED <<pc, mix_url, result, reply>>
            ELSE /\ FindReturns("")
                 /\ UNCHANGED <<dateIdx, url_candidates, candIdx>>

(***************************************************************************)
(* Messages the host delivers                                              *)
(***************************************************************************)
Pads == { 0, MaxPad - 1, MaxPad }

Messages ==
    { Repeat(<< 32 >>, ws) \o Flatten(toks) \o Repeat(PlainChar, pad) \o Repeat(<< 32 >>, ws) :
        toks \in SeqsUpTo(MessageEmoji, MaxTokens), pad \in Pads, ws \in 0..1 }

TooLongOffByOne(message_text) == Len(message_text) >= PassiveMaxLen

TooLong(message_text) == Len(message_text) > PassiveMaxLen

EmojiMixHandler ==
    /\ pc = "idle" /\ entry = "none"
    /\ \E m \in Messages :
         /\ message_str' = m
         /\ entry' = "command"
         /\ UNCHANGED <<hex_in, hex_out>>
         /\ \E ems \in ExtractValidEmojis(Strip(m)) : ProcessMixRequest(ems)

HandleDoubleEmojiMessage ==
    /\ pc = "idle" /\ entry = "none"
    /\ \E m \in Messages :
         LET message_text == Strip(m) IN
         /\ message_str' = m
         /\ entry' = "passive"
         /\ UNCHANGED <<hex_in, hex_out>>
         /\ IF TooLong(message_text)
            THEN /\ reply' = None
                 /\ pc' = "done"
                 /\ UNCHANGED <<emojis, emoji1_hex, emoji2_hex, dateIdx, url_candidates,
                                candIdx, probes, mix_url, processCalled, result>>
            ELSE \E ems \in ExtractValidEmojis(message_text) :
                   IF Len(ems) = 2
                   THEN ProcessMixRequest(ems)
                   ELSE /\ emojis' = ems
                        /\ reply' = None
                        /\ pc' = "done"
                        /\ UNCHANGED <<emoji1_hex, emoji2_hex, dateIdx, url_candidates,
                                       candIdx, probes, mix_url, processCalled, result>>

InitCommon ==
    /\ pc = "idle"
    /\ message_str = << >>
    /\ emojis = << >>
    /\ emoji1_hex = ""
    /\ emoji2_hex = ""
    /\ dateIdx = 0
    /\ url_candidates = << >>
    /\ candIdx = 0
    /\ probes = << >>
    /\ mix_url = ""
    /\ processCalled = FALSE
    /\ result = None
    /\ reply = None
    /\ hex_out = << >>

Init == InitCommon /\ entry = "none" /\ hex_in = << >>

Next == EmojiMixHandler \/ HandleDoubleEmojiMessage \/ Probe

Spec == Init /\ [][Next]_vars

(***************************************************************************)
(* _process_mix_request called on an arbitrary list of emoji               *)
(***************************************************************************)
InitProcess ==
    /\ InitCommon /\ entry = "process" /\ hex_in = << >>

CallProcessMixRequest ==
    /\ pc = "idle" /\ entry = "process"
    /\ UNCHANGED <<entry, message_str, hex_in, hex_out>>
    /\ \E ems \in SeqsUpTo(EmojiData, MaxTokens) : ProcessMixRequest(ems)

NextProcess == CallProcessMixRequest \/ Probe

SpecProcess == InitProcess /\ [][NextProcess]_vars

(***************************************************************************)
(* _get_emoji_hex_code applied to c \o v and to c                          *)
(***************************************************************************)
HexAlphabet == { 128522, 10084, 127464, 127475, VS15, VS16 }

InitHex ==
    /\ InitCommon /\ entry = "hex"
    /\ hex_in \in { << c, v >> : c \in SeqsUpTo(HexAlphabet, 2) \ {<< >>},
                                 v \in SeqsUpTo({VS15, VS16}, MaxSelectors) }

CallGetEmojiHexCode ==
    /\ pc = "idle" /\ entry = "hex"
    /\ hex_out' = << GetEmojiHexCode(hex_in[1] \o hex_in[2]), GetEmojiHexCode(hex_in[1]) >>
    /\ pc' = "done"
    /\ UNCHANGED <<entry, message_str, emojis, emoji1_hex, emoji2_hex, dateIdx,
                   url_candidates, candIdx, probes, mix_url, processCalled, result,
                   reply, hex_in>>

NextHex == CallGetEmojiHexCode

SpecHex == InitHex /\ [][NextHex]_vars

(***************************************************************************)
(* Properties                                                              *)
(***************************************************************************)
Is200(p) == ~p.err /\ p.status = 200

FromHandler == entry \in { "command", "passive" }

\* a run of _find_mixed_emoji_url on two distinct emoji has started
InResolver ==
    /\ FromHandler /\ processCalled
    /\ Len(emojis) = 2 /\ emojis[1] # emojis[2]

\* the date-ordered, pair-ordered candidate sequence of the current run
ExpectedCandidates ==
    LET h1 == GetEmojiHexCode(emojis[1])
        h2 == GetEmojiHexCode(emojis[2])
    IN  [ k \in 1..(2 * Len(date_codes)) |->
            IF k % 2 = 1
            THEN FormatUrl(date_codes[(k + 1) \div 2], h1, h2)
            ELSE FormatUrl(date_codes[k \div 2], h2, h1) ]

DistinctEmojiCount == Cardinality(Range(EmojiList(Strip(message_str))))

\* C1: probes follow the configured date order, primary URL before swapped
\* URL within a date, and the resolver returns None only after both
\* candidates of every date were probed and none reported 200.
C1_ProbeOrderAndExhaustion ==
    InResolver =>
        /\ Len(probes) <= Len(ExpectedCandidates)
        /\ \A i \in DOMAIN probes : probes[i].url = ExpectedCandidates[i]
        /\ (pc = "done" /\ mix_url = "") =>
              /\ Len(probes) = 2 * Len(date_codes)
              /\ \A i \in DOMAIN probes : ~Is200(probes[i])

C1_Witness ==
    /\ InResolver /\ pc = "done" /\ mix_url = ""
    /\ Len(probes) = 2 * Len(date_codes)
    /\ Len(date_codes) >= 2
    /\ probes[1].url # probes[2].url
    /\ \E i \in DOMAIN probes : probes[i].err

\* C2: a returned URL is the earliest candidate whose probe reported 200,
\* all earlier candidates were probed without a 200, and the successful
\* probe is the last one issued.
C2_FirstSuccessShortCircuit ==
    InResolver =>
        /\ \A i \in DOMAIN probes : Is200(probes[i]) => (i = Len(probes) /\ pc = "done")
        /\ (pc = "done" /\ mix_url # "") =>
              /\ probes # << >>
              /\ Is200(probes[Len(probes)])
              /\ mix_url = ExpectedCandidates[Len(probes)]
              /\ \A i \in 1..(Len(probes) - 1) :
                    probes[i].url = ExpectedCandidates[i] /\ ~Is200(probes[i])

C2_Witness ==
    /\ InResolver /\ pc = "done" /\ mix_url # ""
    /\ Len(probes) = 3
    /\ mix_url = FormatUrl(date_codes[2], GetEmojiHexCode(emojis[1]), GetEmojiHexCode(emojis[2]))
    /\ ~probes[1].err /\ probes[2].err

\* C3: from either entry point, a text with 0, 1 or more than 2 distinct
\* emoji is rejected (usage hint, or nothing for the passive listener) and
\* no probe is issued.
C3_WrongCountRejectedBeforeProbing ==
    (FromHandler /\ DistinctEmojiCount # 2) =>
        /\ probes = << >>
        /\ pc # "probing"
        /\ (pc = "done" /\ entry = "command") => reply = UsageHint
        /\ (pc = "done" /\ entry = "passive") => (reply = None /\ ~processCalled)

\* C4: the command handler answers a text made of the same emoji twice with
\* the 'cannot be identical' message, without probing.
C4_CommandSameEmojiTwice ==
    (entry = "command" /\ pc = "done"
        /\ \E e \in EmojiData : Strip(message_str) = e \o e) =>
        (reply = Identical /\ probes = << >>)

\* C5: _process_mix_request on a list of two equal emoji returns the
\* 'cannot be identical' message and never reaches _find_mixed_emoji_url.
C5_IdenticalPairNoProbe ==
    (entry = "process" /\ processCalled /\ Len(emojis) = 2 /\ emojis[1] = emojis[2]) =>
        /\ pc = "done"
        /\ result = Identical
        /\ reply = Identical
        /\ probes = << >>
        /\ url_candidates = << >>

C5_Witness ==
    /\ entry = "process" /\ processCalled /\ pc = "done"
    /\ emojis = << HeartVS, HeartVS >>
    /\ result = Identical

\* C6: for a passive message with two detected emoji the listener hands the
\* host a reply (image or 'no composite found'), the same one the command
\* handler returns, namely the result of _process_mix_request.
C6_PassiveReplyEqualsCommandReply ==
    (entry = "passive" /\ pc = "done" /\ processCalled /\ Len(emojis) = 2) =>
        /\ reply.kind \in { "image", "plain" }
        /\ reply = result

\* C7: for a message in which two emoji are detected, the passive listener
\* calls _process_mix_request exactly when the message text is at most 10
\* long: never at length 11, always at length 10.
C7_PassiveLengthThreshold ==
    (entry = "passive" /\ pc # "idle"
        /\ \A l \in ExtractValidEmojis(Strip(message_str)) : Len(l) = 2) =>
        /\ processCalled <=> (Len(Strip(message_str)) <= 10)
        /\ Len(Strip(message_str)) = 11 => ~processCalled
        /\ Len(Strip(message_str)) = 10 => processCalled

C7_Witness ==
    /\ entry = "passive" /\ pc = "done"
    /\ Len(Strip(message_str)) = 10
    /\ processCalled /\ Len(emojis) = 2
    /\ probes # << >>

\* C8: whatever the probes do, a command event never ends in an unhandled
\* exception; a probe that raises counts as a miss and the next candidate
\* is probed; the loop has a candidate left while it runs; the event ends
\* with one of the four replies.
C8_CommandNeverCrashes ==
    entry = "command" =>
        /\ pc # "crashed"
        /\ pc = "probing" => Len(probes) < 2 * Len(date_codes)
        /\ pc = "done" =>
              \/ reply = UsageHint
              \/ reply = Identical
              \/ (mix_url # "" /\ reply = ImageResult(mix_url))
              \/ (Len(emojis) = 2 /\ mix_url = "" /\ reply = NotFound(emojis[1], emojis[2]))
        /\ \A i \in DOMAIN probes :
              probes[i].err =>
                 \/ i < Len(probes)
                 \/ pc = "probing"
                 \/ /\ i = 2 * Len(date_codes)
                    /\ pc = "done"
                    /\ reply = NotFound(emojis[1], emojis[2])

C8_Witness ==
    /\ entry = "command" /\ pc = "done"
    /\ Len(probes) >= 3
    /\ probes[1].err /\ probes[2].err
    /\ reply.kind = "image"

\* C9: appending variation selectors to an emoji does not change its hex
\* code.
C9_SelectorsIgnored ==
    (entry = "hex" /\ pc = "done") => hex_out[1] = hex_out[2]

C9_Witness ==
    /\ entry = "hex" /\ pc = "done"
    /\ hex_in = << FlagCN, << VS16, VS15 >> >>
    /\ hex_out[1] = "u1f1e8-u1f1f3"

\* C10: one run of the resolver probes no URL twice and issues at most
\* 2 * |date_codes| probes.
C10_NoUrlProbedTwice ==
    InResolver =>
        /\ \A i, j \in DOMAIN probes : i # j => probes[i].url # probes[j].url
        /\ Len(probes) <= 2 * Len(date_codes)

====
